---- MODULE Spec2Model ----
(***************************************************************************)
(* Model of reV's TechMapping (src/reV/supply_curve/tech_mapping.py): the  *)
(* nearest-neighbour mapping of exclusion pixels onto resource sites, the  *)
(* relational re-keying onto generation rows, the process-pool scheduler   *)
(* that scatters per-gid results, and the h5 output store.                 *)
(*                                                                         *)
(* Coordinates and the pruning margin are integers in units of 0.01        *)
(* degree, distance_upper_bound is an integer in units of 0.0001 degree;   *)
(* a distance is compared with the bound through the squares.              *)
(* Arrays are 1-based sequences: flat pixel index p is entry p + 1, and    *)
(* site / row ids stay 0-based as in the source (row k is entry k + 1).    *)
(* An absent attribute or dataset is <<>>, a present one is <<value>>.     *)
(***************************************************************************)
EXTENDS Integers, Sequences, FiniteSets, TLC

\* ------------------------------------------------------------------ bounds
NumChunks == 3
Resolution == 2
MaxWorkers == 2
MaxRuns == 2
\* largest number of gids the batching is examined for
MaxSplit == 9
\* largest hub height, and the largest number of available heights
MaxHeight == 4
MaxLevels == 3

\* ------------------------------------------------------- program constants
\* margin=0.1 degree of map_resource_gids
Margin == 10
\* distance_upper_bound=0.03 degree default of TechMapping.__init__
DefaultBound == 300
\* units of distance_upper_bound in one unit of a coordinate
BoundScale == 100
\* distance_upper_bound=None: the bound is to be inferred
NoBound == -1
\* 1.05 * (2 ** 0.5) / 2 as a fraction
InferNum == 7424621
InferDen == 10000000

\* --------------------------------------------------------------- utilities
None == <<>>
Some(x) == <<x>>
IsSome(o) == Len(o) = 1
Min2(a, b) == IF a <= b THEN a ELSE b
Max2(a, b) == IF a >= b THEN a ELSE b
CeilDiv(a, b) == (a + b - 1) \div b
\* a function over 1 .. n as the sequence of its values
AsSeq(f) == f \o <<>>

RECURSIVE Flatten(_)
Flatten(ss) == IF Len(ss) = 0 THEN <<>> ELSE Head(ss) \o Flatten(Tail(ss))

Range(s) == {s[k] : k \in 1 .. Len(s)}
SeqMin(s) == CHOOSE v \in Range(s) : \A w \in Range(s) : v <= w
SeqMax(s) == CHOOSE v \in Range(s) : \A w \in Range(s) : v >= w

\* ------------------------------------------------- inputs: files and names
ExclFiles == {"a/excl_A.tif", "b/excl_B.tif"}
ResFiles == {"res_1.h5", "res_2.h5", "res_3.h5"}
GenFiles == {"gen_1.h5", "gen_2.h5", "gen_3.h5"}
DsetNames == {"d1", "d2"}
Bounds == {DefaultBound, 1500}

\* os.path.basename of the exclusion paths
basename(path) ==
    CASE path = "a/excl_A.tif" -> "excl_A.tif"
      [] path = "b/excl_B.tif" -> "excl_B.tif"
      [] OTHER -> path

\* Resource.get_meta_arr('latitude'), get_meta_arr('longitude') stacked:
\* the (latitude, longitude) rows of a resource file, row position = site id.
\* No pixel is equally near to two sites, at a distance equal to a bound, or
\* has a site on the edge of its batch's box, so rounding decides nothing.
get_meta_arr(fpath_res) ==
    CASE fpath_res = "res_1.h5" -> << <<1, 1>>, <<1, 13>> >>
      [] fpath_res = "res_2.h5" -> << <<1, -5>> >>
      [] OTHER -> << <<1, 7>>, <<3, -5>>, <<1, 15>> >>

\* Outputs.meta['gid']: the resource id of every row of a generation file,
\* row position = generation id
gen_meta_gid(fpath_gen) ==
    CASE fpath_gen = "gen_1.h5" -> <<1, 0>>
      [] fpath_gen = "gen_2.h5" -> <<0, 0>>
      [] OTHER -> <<2, 1>>

\* ------------------------------------------------------- extent addressing
ExclShape == <<Resolution, Resolution * NumChunks>>
NumPixels == ExclShape[1] * ExclShape[2]
Pixels == 0 .. (NumPixels - 1)

sc_n_rows == CeilDiv(ExclShape[1], Resolution)
sc_n_cols == CeilDiv(ExclShape[2], Resolution)
sc_len == sc_n_rows * sc_n_cols

\* row and column window of one supply curve gid: [r0, r1) x [c0, c1)
get_excl_slices(gid) ==
    LET row_ind == gid \div sc_n_cols
        col_ind == gid % sc_n_cols
    IN  [r0 |-> row_ind * Resolution,
         r1 |-> Min2((row_ind + 1) * Resolution, ExclShape[1]),
         c0 |-> col_ind * Resolution,
         c1 |-> Min2((col_ind + 1) * Resolution, ExclShape[2])]

\* (row, col) pairs of a window in row-major (flatten) order
WindowCells(sl) ==
    LET w == sl.c1 - sl.c0
        n == (sl.r1 - sl.r0) * w
    IN  AsSeq([k \in 1 .. n |->
                  <<sl.r0 + ((k - 1) \div w), sl.c0 + ((k - 1) % w)>>])

\* flat pixel indices of one gid, in the order of the flattened window
flat_ind(cells) ==
    AsSeq([k \in 1 .. Len(cells) |-> cells[k][1] * ExclShape[2] + cells[k][2]])

get_flat_excl_ind(gid) == flat_ind(WindowCells(get_excl_slices(gid)))

\* exclusion meta: (latitude, longitude) of the pixel at (row, col)
ExclMeta(fpath_excl, row, col) ==
    IF fpath_excl = "a/excl_A.tif"
    THEN <<2 * row, 2 * col>>
    ELSE <<2 * row, 2 * col + 6>>

\* the exclusion meta of the whole raster as flat (lat, lon) rows
ExclMetaFlat(fpath_excl) ==
    AsSeq([k \in 1 .. NumPixels |->
        ExclMeta(fpath_excl, (k - 1) \div ExclShape[2], (k - 1) % ExclShape[2])])

\* ---------------------------------------------------------- output store
\* os.path.exists(fpath_out) for a path given with or without '.h5': only
\* the '.h5' file is ever created, the extensionless name is never a file
path_exists(file, has_ext) == has_ext /\ file.exists

NoFile ==
    [exists |-> FALSE, fpath_excl |-> None, latitude |-> None,
     longitude |-> None, dsets |-> [d \in DsetNames |-> None]]

\* the stored coordinates of a file that was built from one exclusion file
ColOf(rows, c) == AsSeq([k \in 1 .. Len(rows) |-> rows[k][c]])

\* ------------------------------------------------------------ _check_fout
\* validation of a pre-existing output file; returns the warning that is
\* emitted (if any) and the exception that is raised (if any)
check_fout(file, exists, fpath_excl, dset) ==
    IF ~exists
    THEN [warning |-> "none", error |-> "none"]
    ELSE IF ~IsSome(file.fpath_excl)
    THEN \* f.attrs['fpath_excl'] is read although the attribute is absent
         [warning |-> "none", error |-> "KeyError"]
    ELSE LET w1 == IF basename(file.fpath_excl[1]) /= basename(fpath_excl)
                   THEN "excl_mismatch" ELSE "none"
             emsg == ~IsSome(file.latitude) \/ ~IsSome(file.longitude)
             w2 == IF IsSome(file.dsets[dset]) THEN "replace" ELSE w1
         IN  [warning |-> w2,
              error |-> IF emsg THEN "FileInputError" ELSE "none"]

\* the file after _check_fout: h5py.File(fpath_out, 'a') is entered only when
\* the path exists and the block reads attributes and dataset names only
check_fout_store_created(file, exists) ==
    IF exists THEN file ELSE [file EXCEPT !.exists = TRUE]

check_fout_store(file, exists) == file

\* --------------------------------------------------- distance_upper_bound
Abs(x) == IF x < 0 THEN -x ELSE x

\* dists = np.abs(lats - np.roll(lats, 1)); dists = dists[(dists != 0)]
lat_dists(lats) ==
    SelectSeq(AsSeq([k \in 1 .. Len(lats) |->
                  Abs(lats[k] - lats[IF k = 1 THEN Len(lats) ELSE k - 1])]),
              LAMBDA d : d /= 0)

\* 1.05 * (2 ** 0.5) * (dists.min() / 2), cut to a whole number of units;
\* dists.min() raises on an empty array, which is None here
infer_bound(dists) ==
    IF Len(dists) = 0
    THEN None
    ELSE Some((InferNum * SeqMin(dists) * BoundScale) \div InferDen)

\* variant: a bound that was not given falls back to the default
get_distance_upper_bound_default(bound, fpath_map) ==
    Some(IF bound = NoBound THEN DefaultBound ELSE bound)

\* the property distance_upper_bound: the value given to the constructor,
\* else the value inferred from the latitudes of the resource meta
get_distance_upper_bound(bound, fpath_map) ==
    IF bound = NoBound
    THEN infer_bound(lat_dists(ColOf(get_meta_arr(fpath_map), 1)))
    ELSE Some(bound)

\* ------------------------------------------------------- _init_out_arrays
init_out_arrays ==
    [ind |-> AsSeq([k \in 1 .. NumPixels |-> -1]),
     coords |-> AsSeq([k \in 1 .. NumPixels |-> <<0, 0>>])]

\* --------------------------------------------------------- _unpack_coords
\* the cached datasets are read when the output path exists
unpack_ok(file, exists) ==
    exists => (IsSome(file.latitude) /\ IsSome(file.longitude))

\* the (lat, lon) rows of one window: from the cached datasets when the
\* output path exists, from the exclusion meta otherwise
emeta(cells, fpath_excl, file, exists) ==
    AsSeq([k \in 1 .. Len(cells) |->
        IF exists
        THEN <<file.latitude[1][cells[k][1] * ExclShape[2] + cells[k][2] + 1],
               file.longitude[1][cells[k][1] * ExclShape[2] + cells[k][2] + 1]>>
        ELSE ExclMeta(fpath_excl, cells[k][1], cells[k][2])])

\* the running minimum and maximum over all windows of the batch
coord_ranges(coords_out, lats, lons) ==
    [coords_out |-> coords_out,
     lat_range |-> <<SeqMin(lats), SeqMax(lats)>>,
     lon_range |-> <<SeqMin(lons), SeqMax(lons)>>]

unpack_ranges(coords_out) ==
    coord_ranges(coords_out, ColOf(Flatten(coords_out), 1),
                 ColOf(Flatten(coords_out), 2))

unpack_coords(gids, fpath_excl, file, exists) ==
    unpack_ranges(AsSeq([i \in 1 .. Len(gids) |->
        emeta(WindowCells(get_excl_slices(gids[i])), fpath_excl, file, exists)]))

\* ------------------------------------------------------ map_resource_gids
Dist2(a, b) ==
    (a[1] - b[1]) * (a[1] - b[1]) + (a[2] - b[2]) * (a[2] - b[2])

\* variant: the distance is never compared with the bound
exceeds_bound_never(dist2, distance_upper_bound) == FALSE

\* dist > distance_upper_bound, on the squares
exceeds_bound(dist2, distance_upper_bound) ==
    dist2 * BoundScale * BoundScale > distance_upper_bound * distance_upper_bound

\* ids of the resource sites strictly inside the bounding box expanded by
\* the margin, ascending (np.where(mask)[0])
mask_ind(res_meta, lat_range, lon_range, margin) ==
    SelectSeq([k \in 1 .. Len(res_meta) |-> k - 1],
              LAMBDA id :
                  /\ res_meta[id + 1][1] > lat_range[1] - margin
                  /\ res_meta[id + 1][1] < lat_range[2] + margin
                  /\ res_meta[id + 1][2] > lon_range[1] - margin
                  /\ res_meta[id + 1][2] < lon_range[2] + margin)

\* cKDTree.query(x) with k=1 over a non-empty point list: squared distance
\* and 0-based position of the nearest point (first of equally near ones)
query_hit(points, x, k) == [dist2 |-> Dist2(points[k], x), ind |-> k - 1]

tree_query(points, x) ==
    query_hit(points, x,
        CHOOSE k \in 1 .. Len(points) :
            \A j \in 1 .. Len(points) :
                \/ Dist2(points[k], x) < Dist2(points[j], x)
                \/ (Dist2(points[k], x) = Dist2(points[j], x) /\ k <= j))

\* a per-gid result is an array, or the scalar -1 of the fallback branches
Arr(v) == [scalar |-> FALSE, v |-> v]
Scalar(x) == [scalar |-> TRUE, v |-> <<x>>]

\* cKDTree(res_meta[mask, :])
res_tree(res_meta, m) == AsSeq([k \in 1 .. Len(m) |-> res_meta[m[k] + 1]])

\* variant: the ids count the rows from one
bounded_ind_one_based(q, m, distance_upper_bound) ==
    IF exceeds_bound(q.dist2, distance_upper_bound) THEN -1 ELSE m[q.ind + 1] + 1

\* ind = mask_ind[ind]; ind[(dist > distance_upper_bound)] = -1
bounded_ind(q, m, distance_upper_bound) ==
    IF exceeds_bound(q.dist2, distance_upper_bound) THEN -1 ELSE m[q.ind + 1]

\* variant: a batch without candidate sites resolves to site 0
query_gids_zero(coords_out, tree, m, distance_upper_bound) ==
    IF Len(m) > 0
    THEN AsSeq([i \in 1 .. Len(coords_out) |->
             Arr(AsSeq([k \in 1 .. Len(coords_out[i]) |->
                 bounded_ind(tree_query(tree, coords_out[i][k]), m,
                             distance_upper_bound)]))])
    ELSE AsSeq([i \in 1 .. Len(coords_out) |-> Scalar(0)])

\* the branch on np.sum(mask) > 0 and the loop over the gids of the batch
query_gids(coords_out, tree, m, distance_upper_bound) ==
    IF Len(m) > 0
    THEN AsSeq([i \in 1 .. Len(coords_out) |->
             Arr(AsSeq([k \in 1 .. Len(coords_out[i]) |->
                 bounded_ind(tree_query(tree, coords_out[i][k]), m,
                             distance_upper_bound)]))])
    ELSE AsSeq([i \in 1 .. Len(coords_out) |-> Scalar(-1)])

map_masked(u, res_meta, m, distance_upper_bound) ==
    [ind |-> query_gids(u.coords_out, res_tree(res_meta, m), m,
                        distance_upper_bound),
     coords |-> u.coords_out]

map_unpacked(u, res_meta, distance_upper_bound, margin) ==
    map_masked(u, res_meta,
               mask_ind(res_meta, u.lat_range, u.lon_range, margin),
               distance_upper_bound)

map_resource_gids(gids, fpath_excl, res_meta, file, exists, distance_upper_bound, margin) ==
    map_unpacked(unpack_coords(gids, fpath_excl, file, exists), res_meta,
                 distance_upper_bound, margin)

\* ------------------------------------------------------------ map_gen_gids
\* gen_gids[np.isnan(gen_gids)] = -1 on the rows joined to one left row
nan_to_minus_one(rows) == IF Len(rows) = 0 THEN <<-1>> ELSE rows

\* variant: the joined 'gid' column is returned instead of 'gen_gid'
left_join_gid(res_gid, gen_meta) ==
    Flatten(AsSeq([k \in 1 .. Len(res_gid) |->
        nan_to_minus_one(SelectSeq(gen_meta, LAMBDA g : g = res_gid[k]))]))

\* pd.merge(res_gid, gen_meta, left_on='res_gid', right_on='gid',
\* how='left')['gen_gid'] with NaN replaced by -1: every left row yields
\* one entry per matching generation row, or one -1 when none matches
left_join(res_gid, gen_meta) ==
    Flatten(AsSeq([k \in 1 .. Len(res_gid) |->
        nan_to_minus_one(SelectSeq([g \in 1 .. Len(gen_meta) |-> g - 1],
                                   LAMBDA g : gen_meta[g + 1] = res_gid[k]))]))

\* f[res_map_dset][row_slice, col_slice].flatten()
res_gid_of(flat, data) == AsSeq([k \in 1 .. Len(flat) |-> data[flat[k] + 1]])

\* the for loop over the gids, then its else clause, which runs whenever the
\* loop ends without break
map_gen_gids(gids, gen_meta, file, res_map_dset) ==
    AsSeq([i \in 1 .. Len(gids) |->
        Arr(left_join(res_gid_of(get_flat_excl_ind(gids[i]),
                                 file.dsets[res_map_dset][1].data), gen_meta))])
    \o AsSeq([i \in 1 .. Len(gids) |-> Scalar(-1)])

\* ------------------------------------------------------------- scheduling
\* variant: every section gets the quotient, the remainder is left out
array_split_floor(n, sections) ==
    AsSeq([i \in 1 .. sections |->
              AsSeq([k \in 1 .. (n \div sections) |->
                        (i - 1) * (n \div sections) + k - 1])])

\* np.array_split(gids, int(np.ceil(len(gids) / 2)))
array_split(n, sections) ==
    LET each == n \div sections
        extras == n % sections
        start(i) == (i - 1) * each + Min2(i - 1, extras)
        size(i) == each + (IF i <= extras THEN 1 ELSE 0)
    IN  AsSeq([i \in 1 .. sections |->
                  AsSeq([k \in 1 .. size(i) |-> start(i) + k - 1])])

gid_chunks == array_split(sc_len, CeilDiv(sc_len, 2))
NumBatches == Len(gid_chunks)
Batches == 1 .. NumBatches

\* numpy fancy assignment arr[idx] = val: val is a scalar, or an array of
\* the length of idx (or of length one, which broadcasts)
assign_ok(idx, val) ==
    val.scalar \/ Len(val.v) = Len(idx) \/ Len(val.v) = 1

RECURSIVE assign_from(_, _, _, _)
assign_from(arr, idx, val, k) ==
    IF k > Len(idx)
    THEN arr
    ELSE assign_from(
             [arr EXCEPT ![idx[k] + 1] =
                 IF val.scalar \/ Len(val.v) = 1 THEN val.v[1] ELSE val.v[k]],
             idx, val, k + 1)

assign(arr, idx, val) == assign_from(arr, idx, val, 1)

\* for j, gid in enumerate(gid_chunks[i]): ind_all[...] = result[0][j];
\* coords_all[..., :] = result[1][j]
RECURSIVE scatter_resource(_, _, _, _)
scatter_resource(arrays, gids, result, j) ==
    IF j > Len(gids)
    THEN arrays
    ELSE LET idx == get_flat_excl_ind(gids[j])
         IN  scatter_resource(
                 [ind |-> assign(arrays.ind, idx, result.ind[j]),
                  coords |-> assign(arrays.coords, idx, Arr(result.coords[j]))],
                 gids, result, j + 1)

\* for j, gid in enumerate(gid_chunks[i]): gen_gids_all[...] = result[j];
\* the assignment raises on a length mismatch, keeping what was assigned
RECURSIVE scatter_gen(_, _, _, _)
scatter_gen(out, gids, result, j) ==
    IF j > Len(gids)
    THEN [ind |-> out, ok |-> TRUE]
    ELSE LET idx == get_flat_excl_ind(gids[j])
         IN  IF assign_ok(idx, result[j])
             THEN scatter_gen(assign(out, idx, result[j]), gids, result, j + 1)
             ELSE [ind |-> out, ok |-> FALSE]

\* ----------------------------------------------------------- save_tech_map
\* variant: the file is created anew whenever coordinates are given
save_tech_map_recreate(file, ind, coords, dset, fpath_excl, fpath_map, distance_upper_bound) ==
    LET created ==
            IF IsSome(coords)
            THEN [exists |-> TRUE,
                  fpath_excl |-> Some(fpath_excl),
                  latitude |-> Some(ColOf(coords[1], 1)),
                  longitude |-> Some(ColOf(coords[1], 2)),
                  dsets |-> [d \in DsetNames |-> None]]
            ELSE file
    IN  [created EXCEPT
            !.exists = TRUE,
            !.dsets[dset] = Some([data |-> ind,
                                  fpath |-> fpath_map,
                                  distance_upper_bound |-> distance_upper_bound])]

\* variant: the coordinate columns are written to the wrong datasets
save_tech_map_swapped(file, ind, coords, dset, fpath_excl, fpath_map, distance_upper_bound) ==
    LET created ==
            IF ~file.exists /\ IsSome(coords)
            THEN [exists |-> TRUE,
                  fpath_excl |-> Some(fpath_excl),
                  latitude |-> Some(ColOf(coords[1], 2)),
                  longitude |-> Some(ColOf(coords[1], 1)),
                  dsets |-> [d \in DsetNames |-> None]]
            ELSE file
    IN  [created EXCEPT
            !.exists = TRUE,
            !.dsets[dset] = Some([data |-> ind,
                                  fpath |-> fpath_map,
                                  distance_upper_bound |-> distance_upper_bound])]

\* the path is completed with '.h5' before anything is written; coords is
\* None for the generation pass
save_tech_map(file, ind, coords, dset, fpath_excl, fpath_map, distance_upper_bound) ==
    LET created ==
            IF ~file.exists /\ IsSome(coords)
            THEN [exists |-> TRUE,
                  fpath_excl |-> Some(fpath_excl),
                  latitude |-> Some(ColOf(coords[1], 1)),
                  longitude |-> Some(ColOf(coords[1], 2)),
                  dsets |-> [d \in DsetNames |-> None]]
            ELSE file
    IN  [created EXCEPT
            !.exists = TRUE,
            !.dsets[dset] = Some([data |-> ind,
                                  fpath |-> fpath_map,
                                  distance_upper_bound |-> distance_upper_bound])]

\* ------------------------------------------------------------------ state
\* ============================================================ WindResource
\* (src/reV/handlers/resource.py) Heights are whole numbers.  An angle is a
\* whole number of 1 / AngleUnit degrees, so that every fraction
\* (h - h_1) / (h_2 - h_1) of a whole number of degrees is exact; a time
\* series is one element of the arrays, which numpy treats alike.
RECURSIVE Gcd(_, _)
Gcd(a, b) == IF b = 0 THEN a ELSE Gcd(b, a % b)

RECURSIVE LcmUpTo(_)
LcmUpTo(n) == IF n <= 1 THEN 1 ELSE (LcmUpTo(n - 1) * n) \div Gcd(LcmUpTo(n - 1), n)

AngleUnit == LcmUpTo(MaxHeight)
FullCircle == 360 * AngleUnit
AngleStep == 45
Angles == {k * AngleStep * AngleUnit : k \in 0 .. (360 \div AngleStep) - 1}
Heights == 0 .. MaxHeight
HeightLists == UNION {[1 .. n -> Heights] : n \in 2 .. MaxLevels}

\* dist = np.abs(heights - h)
height_dist(h, heights) == AsSeq([k \in 1 .. Len(heights) |-> Abs(heights[k] - h)])

\* the index orders dist.argsort() can return: the default sort is not
\* stable, so equal distances come in either order
argsorts(dist) ==
    {perm \in [1 .. Len(dist) -> 1 .. Len(dist)] :
        /\ \A a, b \in 1 .. Len(dist) : a /= b => perm[a] /= perm[b]
        /\ \A k \in 1 .. Len(dist) - 1 : dist[perm[k]] <= dist[perm[k + 1]]}

\* np.sort(heights[pos]) for the two positions pos
sorted_pair(a, b) == IF a <= b THEN <<a, b>> ELSE <<b, a>>

is_outside_inclusive(h, heights) ==
    \/ \A k \in 1 .. Len(heights) : h <= heights[k]
    \/ \A k \in 1 .. Len(heights) : h >= heights[k]

\* np.all(h < heights) or np.all(h > heights)
is_outside(h, heights) ==
    \/ \A k \in 1 .. Len(heights) : h < heights[k]
    \/ \A k \in 1 .. Len(heights) : h > heights[k]

\* WindResource.get_nearest_h for the order pos the argsort returned
get_nearest_h(h, heights, pos) ==
    [nearest_h |-> sorted_pair(heights[pos[1]], heights[pos[2]]),
     extrapolate |-> is_outside(h, heights),
     warned |-> is_outside(h, heights)]

np_sign(x) == IF x > 0 THEN 1 ELSE IF x < 0 THEN -1 ELSE 0

\* WindResource.shortest_angle
shortest_angle(a0, a1) ==
    ((2 * ((a1 - a0) % FullCircle)) % FullCircle) - ((a1 - a0) % FullCircle)

\* n / d for a d that divides n
exact_div(n, d) == IF d < 0 THEN (-n) \div (-d) ELSE n \div d

\* da of circular_interp: the shortest angle times h_f, wrapped
interp_da(ts_1, h_1, ts_2, h_2, h) ==
    np_sign(exact_div(shortest_angle(ts_1, ts_2) * (h - h_1), h_2 - h_1))
        * (Abs(exact_div(shortest_angle(ts_1, ts_2) * (h - h_1), h_2 - h_1))
               % FullCircle)

\* WindResource.circular_interp; no angle comes out of the division by
\* zero when h_1 = h_2 /= h
circular_interp(ts_1, h_1, ts_2, h_2, h) ==
    IF h = h_1 THEN Some(ts_1)
    ELSE IF h = h_2 THEN Some(ts_2)
    ELSE IF h_2 = h_1 THEN None
    ELSE Some((ts_2 + interp_da(ts_1, h_1, ts_2, h_2, h)) % FullCircle)

\* =============================================================== scheduler
VARIABLES
    store,       \* the output h5 file
    pc,          \* position of the orchestrator
    mapper,      \* fields of the TechMapping object of the current run
    warning,     \* FileInputWarning emitted by the validation of this run
    error,       \* exception that ended this run
    ind_all,     \* full sized index array of the orchestrator
    coords_all,  \* full sized coordinate array of the orchestrator
    status,      \* state of the future of every batch
    result,      \* value returned by the task of every batch
    collected,   \* batches that as_completed has handed to the orchestrator
    n_finished,  \* counter of collected futures
    store0,      \* the output file as it was when the run started
    prev,        \* how the previous run ended, and its mapper
    runs,        \* number of runs started
    wind         \* a call of a WindResource function: arguments and return

vars == <<store, pc, mapper, warning, error, ind_all,
          coords_all, status, result, collected, n_finished, store0, prev,
          runs, wind>>

\* _parallel_resource_map over a given list of batches, every batch mapped
\* and scattered in submission order
RECURSIVE resource_map_from(_, _, _, _, _, _, _, _)
resource_map_from(arrays, chunks, i, fpath_excl, meta, file, exists, bound) ==
    IF i > Len(chunks)
    THEN arrays
    ELSE resource_map_from(
             scatter_resource(arrays, chunks[i],
                 map_resource_gids(chunks[i], fpath_excl, meta, file,
                                   exists, bound, Margin), 1),
             chunks, i + 1, fpath_excl, meta, file, exists, bound)

parallel_resource_map(fpath_excl, fpath_res, file, exists, bound) ==
    resource_map_from(init_out_arrays, gid_chunks, 1, fpath_excl,
                      get_meta_arr(fpath_res), file, exists, bound)

\* _parallel_gen_map after its checks, every batch mapped and scattered in
\* submission order; stops at the first scatter that raises
RECURSIVE gen_map_from(_, _, _, _, _)
gen_map_from(out, i, fpath_gen, file, res_map_dset) ==
    IF i > NumBatches
    THEN [ind |-> out, ok |-> TRUE]
    ELSE LET s == scatter_gen(out, gid_chunks[i],
                      map_gen_gids(gid_chunks[i], gen_meta_gid(fpath_gen),
                                   file, res_map_dset), 1)
         IN  IF s.ok
             THEN gen_map_from(s.ind, i + 1, fpath_gen, file, res_map_dset)
             ELSE s

parallel_gen_map(fpath_gen, file, res_map_dset) ==
    gen_map_from(init_out_arrays.ind, 1, fpath_gen, file, res_map_dset)

\* output files found on disk before the first run: none, a file left by an
\* earlier resource pass, and files lacking the attribute or a coordinate
\* dataset
Built(fpath_excl, fpath_res) ==
    LET arrays == parallel_resource_map(fpath_excl, fpath_res, NoFile, FALSE,
                                        DefaultBound)
    IN  save_tech_map(NoFile, arrays.ind, Some(arrays.coords), "d1",
                      fpath_excl, fpath_res, DefaultBound)

PreExisting ==
    LET built == Built("b/excl_B.tif", "res_3.h5")
    IN  { NoFile,
          built,
          [built EXCEPT !.fpath_excl = None],
          [built EXCEPT !.latitude = None],
          [built EXCEPT !.fpath_excl = None, !.longitude = None] }

IdleMapper ==
    [op |-> "none", fpath_excl |-> "a/excl_A.tif", fpath_map |-> "res_1.h5",
     has_ext |-> TRUE, dset |-> "d1", res_map_dset |-> "d1",
     distance_upper_bound |-> DefaultBound, n_cores |-> 1,
     bound_arg |-> DefaultBound, passed |-> <<>>]

IdleWind ==
    [fn |-> "none", done |-> FALSE, h |-> 0, heights |-> <<0, 0>>,
     ts_1 |-> 0, h_1 |-> 0, ts_2 |-> 0, h_2 |-> 0,
     nearest_h |-> <<>>, extrapolate |-> FALSE, warned |-> FALSE,
     out |-> None]

Init ==
    /\ store \in PreExisting
    /\ pc = "idle"
    /\ mapper = IdleMapper
    /\ warning = "none"
    /\ error = "none"
    /\ ind_all = init_out_arrays.ind
    /\ coords_all = init_out_arrays.coords
    /\ status = [i \in Batches |-> "unsubmitted"]
    /\ result = [i \in Batches |-> None]
    /\ collected = <<>>
    /\ n_finished = 0
    /\ store0 = store
    /\ prev = [pc |-> "idle", mapper |-> IdleMapper, cached |-> FALSE]
    /\ runs = 0
    /\ wind = IdleWind

\* ---------------------------------------------------------------- actions
Reset ==
    /\ ind_all' = init_out_arrays.ind
    /\ coords_all' = init_out_arrays.coords
    /\ status' = [i \in Batches |-> "unsubmitted"]
    /\ result' = [i \in Batches |-> None]
    /\ collected' = <<>>
    /\ n_finished' = 0
    /\ store0' = store
    /\ prev' = [pc |-> pc, mapper |-> mapper,
                cached |-> path_exists(store0, mapper.has_ext)]
    /\ runs' = runs + 1

\* run_resource_map up to the first submission: the constructor with
\* _check_fout, then the set-up of _parallel_resource_map
start_resource_map(fpath_excl, fpath_res, has_ext, dset, bound, n_cores) ==
    /\ pc = "idle"
    /\ LET chk == check_fout(store, path_exists(store, has_ext),
                             fpath_excl, dset)
       IN  /\ warning' = chk.warning
           /\ error' = chk.error
           /\ pc' = IF chk.error /= "none" THEN "error" ELSE "submit"
    /\ mapper' = [op |-> "resource", fpath_excl |-> fpath_excl,
                  fpath_map |-> fpath_res, has_ext |-> has_ext,
                  dset |-> dset, res_map_dset |-> dset,
                  distance_upper_bound |-> bound, n_cores |-> n_cores,
                  bound_arg |-> bound, passed |-> <<>>]
    /\ Reset
    /\ store' = check_fout_store(store, path_exists(store, has_ext))
    /\ UNCHANGED wind

\* run_gen_map up to the first submission: the constructor with
\* _check_fout, then the checks and the set-up of _parallel_gen_map
start_gen_map(fpath_excl, fpath_gen, has_ext, gen_map_dset, res_map_dset, n_cores) ==
    /\ pc = "idle"
    /\ LET exists == path_exists(store, has_ext)
           chk == check_fout(store, exists, fpath_excl, gen_map_dset)
           missing == ~exists \/ ~IsSome(store.dsets[res_map_dset])
       IN  /\ warning' = chk.warning
           /\ error' = IF chk.error /= "none" THEN chk.error
                       ELSE IF missing THEN "FileInputError" ELSE "none"
           /\ pc' = IF chk.error /= "none" \/ missing
                    THEN "error" ELSE "submit"
    /\ mapper' = [op |-> "gen", fpath_excl |-> fpath_excl,
                  fpath_map |-> fpath_gen, has_ext |-> has_ext,
                  dset |-> gen_map_dset, res_map_dset |-> res_map_dset,
                  distance_upper_bound |-> DefaultBound, n_cores |-> n_cores,
                  bound_arg |-> DefaultBound, passed |-> <<>>]
    /\ Reset
    /\ store' = check_fout_store(store, path_exists(store, has_ext))
    /\ UNCHANGED wind

NumSubmitted == Cardinality({i \in Batches : status[i] /= "unsubmitted"})
NumRunning == Cardinality({i \in Batches : status[i] = "running"})

\* the mapper after self.distance_upper_bound was read for a submission of
\* map_resource_gids: the value is kept in the object and passed to the task
submitted_with(m, b) ==
    IF m.op = "resource"
    THEN [m EXCEPT !.distance_upper_bound = b, !.passed = Append(@, b)]
    ELSE m

\* executor.submit of the next batch; after the last one the orchestrator
\* enters the as_completed loop. The arguments of a resource task are
\* evaluated first: reading the bound raises when it cannot be inferred
Submit ==
    /\ pc = "submit"
    /\ IF mapper.op = "resource"
          /\ ~IsSome(get_distance_upper_bound(mapper.distance_upper_bound,
                                              mapper.fpath_map))
       THEN /\ pc' = "error"
            /\ error' = "ValueError"
            /\ UNCHANGED <<status, mapper>>
       ELSE /\ status' = [status EXCEPT ![NumSubmitted + 1] = "pending"]
            /\ pc' = IF NumSubmitted + 1 = NumBatches
                     THEN "collect" ELSE "submit"
            /\ mapper' = submitted_with(mapper,
                             get_distance_upper_bound(
                                 mapper.distance_upper_bound,
                                 mapper.fpath_map)[1])
            /\ UNCHANGED error
    /\ UNCHANGED <<store, warning, ind_all, coords_all,
                   result, collected, n_finished, store0, prev, runs>>
    /\ UNCHANGED wind

\* a free worker process of the pool takes a queued batch
TaskStart(i) ==
    /\ status[i] = "pending"
    /\ NumRunning < mapper.n_cores
    /\ status' = [status EXCEPT ![i] = "running"]
    /\ UNCHANGED <<store, pc, mapper, warning, error, ind_all,
                   coords_all, result, collected, n_finished, store0, prev, runs>>
    /\ UNCHANGED wind

\* what the worker of batch i reads and returns
task_can_return(i) ==
    IF mapper.op = "resource"
    THEN unpack_ok(store, path_exists(store, mapper.has_ext))
    ELSE store.exists /\ IsSome(store.dsets[mapper.res_map_dset])

task_result(i) ==
    IF mapper.op = "resource"
    THEN map_resource_gids(gid_chunks[i], mapper.fpath_excl,
                           get_meta_arr(mapper.fpath_map), store,
                           path_exists(store, mapper.has_ext),
                           mapper.passed[i], Margin)
    ELSE map_gen_gids(gid_chunks[i], gen_meta_gid(mapper.fpath_map), store,
                      mapper.res_map_dset)

\* the task of batch i returns its result
TaskReturn(i) ==
    /\ status[i] = "running"
    /\ task_can_return(i)
    /\ status' = [status EXCEPT ![i] = "ok"]
    /\ result' = [result EXCEPT ![i] = Some(task_result(i))]
    /\ UNCHANGED <<store, pc, mapper, warning, error, ind_all,
                   coords_all, collected, n_finished, store0, prev, runs>>
    /\ UNCHANGED wind

\* the task of batch i raises (a failed read, a killed worker, ...)
TaskRaise(i) ==
    /\ status[i] = "running"
    /\ status' = [status EXCEPT ![i] = "failed"]
    /\ UNCHANGED <<store, pc, mapper, warning, error, ind_all,
                   coords_all, result, collected, n_finished, store0, prev, runs>>
    /\ UNCHANGED wind

\* variant: the index left over from the submission loop is used
batch_of_future_last(i) == NumBatches

\* i = futures[future]: the batch a completed future was submitted for
batch_of_future(i) == i

\* variant: the exception of a failed task is swallowed
pc_after_result_swallowed(raised) == "collect"

\* result = future.result(): the exception of a failed task is re-raised in
\* the orchestrator and leaves the as_completed loop
pc_after_result(raised) == IF raised THEN "aborting" ELSE "collect"

\* one iteration of the as_completed loop: future.result() re-raises the
\* exception of a failed task, otherwise the result is scattered by gid
Collect(i) ==
    /\ pc = "collect"
    /\ status[i] \in {"ok", "failed"}
    /\ \A k \in 1 .. Len(collected) : collected[k] /= i
    /\ collected' = Append(collected, i)
    /\ n_finished' = n_finished + 1
    /\ IF status[i] = "failed"
       THEN /\ pc' = pc_after_result(TRUE)
            /\ error' = "WorkerError"
            /\ UNCHANGED <<ind_all, coords_all>>
       ELSE IF mapper.op = "resource"
       THEN LET out == scatter_resource(
                           [ind |-> ind_all, coords |-> coords_all],
                           gid_chunks[batch_of_future(i)], result[i][1], 1)
            IN  /\ ind_all' = out.ind
                /\ coords_all' = out.coords
                /\ pc' = pc_after_result(FALSE)
                /\ UNCHANGED error
       ELSE LET out == scatter_gen(ind_all, gid_chunks[batch_of_future(i)],
                                   result[i][1], 1)
            IN  /\ ind_all' = out.ind
                /\ pc' = pc_after_result(~out.ok)
                /\ error' = IF out.ok THEN error ELSE "ValueError"
                /\ UNCHANGED coords_all
    /\ UNCHANGED <<store, mapper, warning, status, result, store0,
                   prev, runs>>
    /\ UNCHANGED wind

\* leaving the executor's with block on an exception: shutdown(wait=True)
\* returns once every submitted task has finished
ExecutorExit ==
    /\ pc = "aborting"
    /\ \A i \in Batches : status[i] \in {"ok", "failed"}
    /\ pc' = "error"
    /\ UNCHANGED <<store, mapper, warning, error, ind_all, coords_all,
                   status, result, collected, n_finished, store0, prev, runs>>
    /\ UNCHANGED wind

\* variant: the loop waits for one future more than were submitted
all_collected_more(n) == n > NumBatches

\* variant: the loop is left after the first future
all_collected_first(n) == n >= 1

\* the as_completed loop has handed over every submitted future
all_collected(n) == n = NumBatches

\* the last line of run_resource_map / run_gen_map
Save ==
    /\ pc = "collect"
    /\ all_collected(n_finished)
    /\ store' = save_tech_map(store, ind_all,
                    IF mapper.op = "resource" THEN Some(coords_all) ELSE None,
                    mapper.dset, mapper.fpath_excl, mapper.fpath_map,
                    get_distance_upper_bound(mapper.distance_upper_bound,
                                             mapper.fpath_map)[1])
    /\ pc' = "done"
    /\ UNCHANGED <<mapper, warning, error, ind_all, coords_all, status,
                   result, collected, n_finished, store0, prev, runs>>
    /\ UNCHANGED wind

Next ==
    \/ \E fpath_excl \in ExclFiles, fpath_res \in ResFiles,
          has_ext \in BOOLEAN, dset \in DsetNames,
          bound \in Bounds \cup {NoBound}, n_cores \in 1 .. MaxWorkers :
           start_resource_map(fpath_excl, fpath_res, has_ext, dset, bound,
                              n_cores)
    \/ \E fpath_excl \in ExclFiles, fpath_gen \in GenFiles,
          has_ext \in BOOLEAN, gen_map_dset \in DsetNames,
          res_map_dset \in DsetNames, n_cores \in 1 .. MaxWorkers :
           start_gen_map(fpath_excl, fpath_gen, has_ext, gen_map_dset,
                         res_map_dset, n_cores)
    \/ Submit
    \/ \E i \in Batches : TaskStart(i)
    \/ \E i \in Batches : TaskReturn(i)
    \/ \E i \in Batches : TaskRaise(i)
    \/ \E i \in Batches : Collect(i)
    \/ ExecutorExit
    \/ Save

Spec == Init /\ [][Next]_vars

\* --------------------------------------------- runs on a pool that is fair
\* every worker task finishes without error: a queued batch is taken by a
\* free worker, a running task returns, a completed future is handed to the
\* orchestrator, and the orchestrator takes its next step
NextFair ==
    \/ \E fpath_excl \in ExclFiles, fpath_res \in ResFiles,
          has_ext \in BOOLEAN, dset \in DsetNames,
          bound \in Bounds \cup {NoBound}, n_cores \in 1 .. MaxWorkers :
           start_resource_map(fpath_excl, fpath_res, has_ext, dset, bound,
                              n_cores)
    \/ \E fpath_excl \in ExclFiles, fpath_gen \in GenFiles,
          has_ext \in BOOLEAN, gen_map_dset \in DsetNames,
          res_map_dset \in DsetNames, n_cores \in 1 .. MaxWorkers :
           start_gen_map(fpath_excl, fpath_gen, has_ext, gen_map_dset,
                         res_map_dset, n_cores)
    \/ Submit
    \/ \E i \in Batches : TaskStart(i)
    \/ \E i \in Batches : TaskReturn(i)
    \/ \E i \in Batches : Collect(i)
    \/ ExecutorExit
    \/ Save

\* what TaskReturn(i) does to the future of batch i
future_returns(i) ==
    /\ status[i] = "running"
    /\ task_can_return(i)
    /\ status' = [status EXCEPT ![i] = "ok"]

\* what Collect(i) does to the list of collected futures
future_collected(i) ==
    /\ pc = "collect"
    /\ status[i] \in {"ok", "failed"}
    /\ \A k \in 1 .. Len(collected) : collected[k] /= i
    /\ collected' = Append(collected, i)

\* the pool runs a queued batch when a worker is free and lets a running
\* task return; as_completed hands over a completed future; the
\* orchestrator takes its next step
Fairness ==
    /\ WF_vars(Submit)
    /\ \A i \in Batches : WF_vars(TaskStart(i))
    /\ \A i \in Batches : WF_status(future_returns(i))
    /\ \A i \in Batches : WF_collected(future_collected(i))
    /\ WF_vars(ExecutorExit)
    /\ WF_vars(Save)

SpecFair == Init /\ [][NextFair]_vars /\ Fairness

\* ------------------------------------------------- whole runs in sequence
\* the orchestrator's variables after a run that ended before or in the
\* as_completed loop: its arrays are dropped with the exception
Dropped(msg) ==
    /\ error' = msg
    /\ pc' = "error"
    /\ ind_all' = init_out_arrays.ind
    /\ coords_all' = init_out_arrays.coords
    /\ status' = [i \in Batches |-> "unsubmitted"]
    /\ collected' = <<>>
    /\ n_finished' = 0
    /\ store' = store

Returned(ind, coords) ==
    /\ error' = "none"
    /\ pc' = "done"
    /\ ind_all' = ind
    /\ coords_all' = coords
    /\ status' = [i \in Batches |-> "ok"]
    /\ collected' = [i \in Batches |-> i]
    /\ n_finished' = NumBatches

History ==
    /\ result' = [i \in Batches |-> None]
    /\ store0' = store
    /\ prev' = [pc |-> pc, mapper |-> mapper,
                cached |-> path_exists(store0, mapper.has_ext)]
    /\ runs' = runs + 1

\* run_resource_map from the call to its return or exception, when no
\* worker is killed: a task raises only on a failed read of the cache
run_resource_map(fpath_excl, fpath_res, has_ext, dset, bound, n_cores) ==
    /\ pc \in {"idle", "done", "error"}
    /\ runs < MaxRuns
    /\ mapper' = [op |-> "resource", fpath_excl |-> fpath_excl,
                  fpath_map |-> fpath_res, has_ext |-> has_ext,
                  dset |-> dset, res_map_dset |-> dset,
                  distance_upper_bound |-> bound, n_cores |-> n_cores,
                  bound_arg |-> bound,
                  passed |-> AsSeq([i \in Batches |-> bound])]
    /\ LET exists == path_exists(store, has_ext)
           chk == check_fout(store, exists, fpath_excl, dset)
           arrays == parallel_resource_map(fpath_excl, fpath_res, store,
                                           exists, bound)
       IN  /\ warning' = chk.warning
           /\ IF chk.error /= "none"
              THEN Dropped(chk.error)
              ELSE IF ~unpack_ok(store, exists)
              THEN Dropped("WorkerError")
              ELSE /\ Returned(arrays.ind, arrays.coords)
                   /\ store' = save_tech_map(store, arrays.ind,
                                   Some(arrays.coords), dset, fpath_excl,
                                   fpath_res, bound)
    /\ History
    /\ UNCHANGED wind

\* run_gen_map from the call to its return or exception, when no worker
\* is killed
run_gen_map(fpath_excl, fpath_gen, has_ext, gen_map_dset, res_map_dset, n_cores) ==
    /\ pc \in {"idle", "done", "error"}
    /\ runs < MaxRuns
    /\ mapper' = [op |-> "gen", fpath_excl |-> fpath_excl,
                  fpath_map |-> fpath_gen, has_ext |-> has_ext,
                  dset |-> gen_map_dset, res_map_dset |-> res_map_dset,
                  distance_upper_bound |-> DefaultBound, n_cores |-> n_cores,
                  bound_arg |-> DefaultBound, passed |-> <<>>]
    /\ LET exists == path_exists(store, has_ext)
           chk == check_fout(store, exists, fpath_excl, gen_map_dset)
           missing == ~exists \/ ~IsSome(store.dsets[res_map_dset])
       IN  /\ warning' = chk.warning
           /\ IF chk.error /= "none"
              THEN Dropped(chk.error)
              ELSE IF missing
              THEN Dropped("FileInputError")
              ELSE LET out == parallel_gen_map(fpath_gen, store, res_map_dset)
                   IN  IF ~out.ok
                       THEN Dropped("ValueError")
                       ELSE /\ Returned(out.ind, init_out_arrays.coords)
                            /\ store' = save_tech_map(store, out.ind, None,
                                            gen_map_dset, fpath_excl,
                                            fpath_gen, DefaultBound)
    /\ History
    /\ UNCHANGED wind

\* sequences of runs against one resource file and one generation file; the
\* resource runs write one dataset, the generation runs name one exclusion file
NextRuns ==
    \/ \E fpath_excl \in ExclFiles, has_ext \in BOOLEAN, bound \in Bounds :
           run_resource_map(fpath_excl, "res_3.h5", has_ext, "d1", bound, 1)
    \/ \E has_ext \in BOOLEAN, gen_map_dset \in DsetNames,
          res_map_dset \in DsetNames :
           run_gen_map("a/excl_A.tif", "gen_1.h5", has_ext, gen_map_dset,
                       res_map_dset, 1)

SpecRuns == Init /\ [][NextRuns]_vars

\* ------------------------------------------- calls of WindResource functions
\* the arguments of one call of get_nearest_h or of circular_interp
WindInputs ==
    {[IdleWind EXCEPT !.fn = "get_nearest_h", !.h = h, !.heights = heights] :
        h \in Heights, heights \in HeightLists}
    \cup
    {[IdleWind EXCEPT !.fn = "circular_interp", !.h = hh[1], !.h_1 = hh[2],
                      !.h_2 = hh[3], !.ts_1 = ts[1], !.ts_2 = ts[2]] :
        hh \in Heights \X Heights \X Heights, ts \in Angles \X Angles}

InitWind ==
    /\ store = NoFile
    /\ pc = "idle"
    /\ mapper = IdleMapper
    /\ warning = "none"
    /\ error = "none"
    /\ ind_all = init_out_arrays.ind
    /\ coords_all = init_out_arrays.coords
    /\ status = [i \in Batches |-> "unsubmitted"]
    /\ result = [i \in Batches |-> None]
    /\ collected = <<>>
    /\ n_finished = 0
    /\ store0 = store
    /\ prev = [pc |-> "idle", mapper |-> IdleMapper, cached |-> FALSE]
    /\ runs = 0
    /\ wind \in WindInputs

WindOnly ==
    UNCHANGED <<store, pc, mapper, warning, error, ind_all, coords_all,
                status, result, collected, n_finished, store0, prev, runs>>

call_get_nearest_h ==
    /\ wind.fn = "get_nearest_h"
    /\ ~wind.done
    /\ \E pos \in argsorts(height_dist(wind.h, wind.heights)) :
           wind' = [wind EXCEPT
               !.done = TRUE,
               !.nearest_h = get_nearest_h(wind.h, wind.heights, pos).nearest_h,
               !.extrapolate = get_nearest_h(wind.h, wind.heights, pos).extrapolate,
               !.warned = get_nearest_h(wind.h, wind.heights, pos).warned]
    /\ WindOnly

call_circular_interp ==
    /\ wind.fn = "circular_interp"
    /\ ~wind.done
    /\ wind' = [wind EXCEPT
           !.done = TRUE,
           !.out = circular_interp(wind.ts_1, wind.h_1, wind.ts_2, wind.h_2,
                                   wind.h)]
    /\ WindOnly

NextWind ==
    \/ call_get_nearest_h
    \/ call_circular_interp

SpecWind == InitWind /\ [][NextWind]_vars

\* ================================================================= claims
Started == pc /= "idle"
Succeeded(op) == pc = "done" /\ mapper.op = op
SavedData == store.dsets[mapper.dset][1].data
Exists0 == path_exists(store0, mapper.has_ext)

\* C1: after a successful run_resource_map every pixel of the persisted
\* index map is -1 or names a resource site whose distance to the pixel's
\* (lat, lon), as unpacked by the run, is at most distance_upper_bound
C1_WithinBound ==
    Succeeded("resource") =>
        LET meta == get_meta_arr(mapper.fpath_map)
            b == mapper.distance_upper_bound
        IN  \A p \in 1 .. NumPixels :
                \/ SavedData[p] = -1
                \/ /\ SavedData[p] \in 0 .. (Len(meta) - 1)
                   /\ Dist2(coords_all[p], meta[SavedData[p] + 1])
                          * BoundScale * BoundScale <= b * b

C1_Witness ==
    /\ Succeeded("resource")
    /\ \E p \in 1 .. NumPixels : SavedData[p] >= 0
    /\ \E p \in 1 .. NumPixels :
           /\ SavedData[p] = -1
           /\ \A k \in 1 .. Len(get_meta_arr(mapper.fpath_map)) :
                  Dist2(coords_all[p], get_meta_arr(mapper.fpath_map)[k])
                      * BoundScale * BoundScale
                      > mapper.distance_upper_bound * mapper.distance_upper_bound

\* the index map of a resource pass over the given list of batches
Assembled(chunks) ==
    resource_map_from(init_out_arrays, chunks, 1, mapper.fpath_excl,
                      get_meta_arr(mapper.fpath_map), store0, Exists0,
                      mapper.distance_upper_bound).ind

OneGidChunks == AsSeq([g \in 1 .. sc_len |-> <<g - 1>>])
AllInOneChunk == <<AsSeq([g \in 1 .. sc_len |-> g - 1])>>

\* C2: the final index map of a resource pass is the same for 1-gid
\* batches, the scheduler's 2-gid batches and one batch with all gids, for
\* every distance_upper_bound
C2_BatchInvariance ==
    Succeeded("resource") =>
        /\ ind_all = Assembled(OneGidChunks)
        /\ ind_all = Assembled(AllInOneChunk)

ValueAt(res, k) == IF res.scalar THEN res.v[1] ELSE res.v[k]

\* what the task of batch i returns on the inputs of the run
InputResult(i) ==
    IF mapper.op = "resource"
    THEN map_resource_gids(gid_chunks[i], mapper.fpath_excl,
                           get_meta_arr(mapper.fpath_map), store0, Exists0,
                           mapper.distance_upper_bound, Margin)
    ELSE [ind |-> map_gen_gids(gid_chunks[i], gen_meta_gid(mapper.fpath_map),
                               store0, mapper.res_map_dset),
          coords |-> <<>>]

\* every pixel of the gids of batch i holds the value that result r has for it
HoldsResultOf(i, r) ==
    \A j \in 1 .. Len(gid_chunks[i]) :
        \A k \in 1 .. Len(get_flat_excl_ind(gid_chunks[i][j])) :
            /\ ind_all[get_flat_excl_ind(gid_chunks[i][j])[k] + 1]
                   = ValueAt(r.ind[j], k)
            /\ mapper.op = "resource" =>
                   coords_all[get_flat_excl_ind(gid_chunks[i][j])[k] + 1]
                       = r.coords[j][k]

\* C3: the arrays returned by _parallel_resource_map and _parallel_gen_map
\* are a function of the inputs alone: every pixel holds the value its own
\* gid's task returned, whatever the pool size and the completion order
C3_OrderIndependent ==
    (pc = "done") => \A i \in Batches : HoldsResultOf(i, InputResult(i))

C3_Witness ==
    /\ Succeeded("resource")
    /\ mapper.n_cores > 1
    /\ \E a, b \in 1 .. Len(collected) : a < b /\ collected[a] > collected[b]
    /\ \E p \in 1 .. NumPixels : ind_all[p] >= 0

\* C4: whenever the store differs from its content at the start of the run,
\* every batch has been collected without error and the run has returned
C4_NoEarlyWrite ==
    (store /= store0) =>
        /\ pc = "done"
        /\ error = "none"
        /\ n_finished = NumBatches
        /\ \A i \in Batches : status[i] = "ok"

C4_Witness == pc = "done" /\ store /= store0

\* C5 as stated: once a failed batch has been collected nothing more is
\* scattered, nothing is retried, no queued batch is started any more, the
\* run is on its way to the error state and the store is as before the run
C5_Original ==
    [][error = "WorkerError" =>
          /\ ind_all' = ind_all /\ coords_all' = coords_all
          /\ collected' = collected
          /\ store' = store /\ store = store0
          /\ pc' \in {"aborting", "error"}
          /\ \A i \in Batches : status[i] = "failed" => status'[i] = "failed"
          /\ \A i \in Batches : status[i] = "pending" => status'[i] = "pending"
      ]_vars

\* C5 amended: the same, except that batches still queued are executed by
\* the pool while the executor shuts down; their results are never scattered
C5_FailureAborts ==
    [][error = "WorkerError" =>
          /\ ind_all' = ind_all /\ coords_all' = coords_all
          /\ collected' = collected
          /\ store' = store /\ store = store0
          /\ pc' \in {"aborting", "error"}
          /\ \A i \in Batches : status[i] = "failed" => status'[i] = "failed"
      ]_vars

C5_Witness ==
    /\ pc = "error"
    /\ error = "WorkerError"
    /\ store = store0
    /\ \E i \in Batches :
           /\ status[i] = "ok"
           /\ \A k \in 1 .. Len(collected) : collected[k] /= i

SameInputs(m1, m2) ==
    /\ m1.op = m2.op /\ m1.fpath_excl = m2.fpath_excl
    /\ m1.fpath_map = m2.fpath_map /\ m1.has_ext = m2.has_ext
    /\ m1.dset = m2.dset
    /\ m1.distance_upper_bound = m2.distance_upper_bound

Rerun ==
    /\ Succeeded("resource")
    /\ prev.pc = "done"
    /\ SameInputs(prev.mapper, mapper)

C7_GenCorrect ==
    Succeeded("gen") =>
        LET res == store0.dsets[mapper.res_map_dset][1].data
            col == gen_meta_gid(mapper.fpath_map)
        IN  \A p \in 1 .. NumPixels :
                IF res[p] /= -1 /\ \E k \in 1 .. Len(col) : col[k] = res[p]
                THEN /\ SavedData[p] \in 0 .. (Len(col) - 1)
                     /\ \A k \in 1 .. Len(col) :
                            col[k] = res[p] => SavedData[p] = k - 1
                ELSE SavedData[p] = -1

C7_Witness ==
    /\ Succeeded("gen")
    /\ \E p \in 1 .. NumPixels : SavedData[p] >= 0
    /\ \E p \in 1 .. NumPixels :
           /\ store0.dsets[mapper.res_map_dset][1].data[p] >= 0
           /\ SavedData[p] = -1
    /\ \E p \in 1 .. NumPixels :
           store0.dsets[mapper.res_map_dset][1].data[p] = -1

\* C8: run_gen_map on a missing output file or a missing resource dataset
\* ends in FileInputError before any batch is submitted, the store unchanged
C8_GenNeedsResourceMap ==
    (Started /\ mapper.op = "gen"
        /\ (~Exists0 \/ ~IsSome(store0.dsets[mapper.res_map_dset]))) =>
        /\ pc = "error"
        /\ error = "FileInputError"
        /\ NumSubmitted = 0
        /\ store = store0

\* C9: a pre-existing output file without 'latitude' or 'longitude' makes the
\* constructor raise FileInputError before any batch is submitted, the file
\* unchanged, whatever warning conditions hold
C9_MissingCoordsFatal ==
    (Started /\ Exists0
        /\ (~IsSome(store0.latitude) \/ ~IsSome(store0.longitude))) =>
        /\ pc = "error"
        /\ error = "FileInputError"
        /\ NumSubmitted = 0
        /\ store = store0

\* C10: a pre-existing output file with both coordinate datasets and without
\* the 'fpath_excl' attribute yields a FileInputWarning and no error from
\* validation
C10_MissingAttrWarns ==
    (Started /\ Exists0 /\ IsSome(store0.latitude) /\ IsSome(store0.longitude)
        /\ ~IsSome(store0.fpath_excl)) =>
        /\ warning /= "none"
        /\ error \notin {"KeyError", "FileInputError"}

\* the pre-existing file passes the coordinate check and records an
\* exclusion file of another name than the one of this run
Mismatch0 ==
    /\ Started /\ Exists0
    /\ IsSome(store0.latitude) /\ IsSome(store0.longitude)
    /\ IsSome(store0.fpath_excl)
    /\ basename(store0.fpath_excl[1]) /= basename(mapper.fpath_excl)

\* C11: when the recorded exclusion basename differs from the current one,
\* validation emits the provenance-mismatch warning and raises nothing,
\* also when the requested dataset already exists in the file
C11_MismatchWarns ==
    Mismatch0 =>
        /\ warning = "excl_mismatch"
        /\ error /= "KeyError"
        /\ error = "FileInputError" =>
               mapper.op = "gen" /\ ~IsSome(store0.dsets[mapper.res_map_dset])

\* the output file held the requested dataset when the run started
DsetExisted0 == store0.exists /\ IsSome(store0.dsets[mapper.dset])

\* C12: a run that succeeds on a file that already holds the requested
\* dataset has emitted the replacement warning, and every pixel of the
\* dataset holds the value of the new run, none of the previous one
C12_Replaced ==
    (pc = "done" /\ DsetExisted0) =>
        /\ warning = "replace"
        /\ SavedData = ind_all

\* run_gen_map with an extensionless output path right after a successful
\* run_resource_map with the same extensionless path, reading its dataset
GenAfterResourceNoExt ==
    /\ prev.pc = "done" /\ prev.mapper.op = "resource"
    /\ ~prev.mapper.has_ext
    /\ Started /\ mapper.op = "gen" /\ ~mapper.has_ext
    /\ mapper.res_map_dset = prev.mapper.dset

\* C13: an output path without '.h5' names the same corrected file in the
\* validation, the workers' lookup, the generation pass's existence check
\* and the save, so that such a run_gen_map finds the file and the resource
\* dataset of the run_resource_map before it and succeeds
C13_ExtensionCorrected ==
    GenAfterResourceNoExt => pc = "done" /\ error = "none"

\* C14: after a successful run_resource_map the output file holds latitude,
\* longitude and the requested dataset, each with one entry per exclusion
\* pixel, the attribute fpath_excl, and on the dataset the resource file and
\* the distance_upper_bound of the run; the coordinates and fpath_excl are
\* those of this run exactly when the file did not exist before the save
C14_FileLayout ==
    Succeeded("resource") =>
        /\ store.exists
        /\ IsSome(store.latitude) /\ IsSome(store.longitude)
        /\ IsSome(store.dsets[mapper.dset]) /\ IsSome(store.fpath_excl)
        /\ Len(store.latitude[1]) = NumPixels
        /\ Len(store.longitude[1]) = NumPixels
        /\ Len(SavedData) = NumPixels
        /\ store.dsets[mapper.dset][1].fpath = mapper.fpath_map
        /\ store.dsets[mapper.dset][1].distance_upper_bound
               = mapper.distance_upper_bound
        /\ IF store0.exists
           THEN /\ store.latitude = store0.latitude
                /\ store.longitude = store0.longitude
                /\ store.fpath_excl = store0.fpath_excl
           ELSE /\ store.latitude = Some(ColOf(coords_all, 1))
                /\ store.longitude = Some(ColOf(coords_all, 2))
                /\ store.fpath_excl = Some(mapper.fpath_excl)

\* number of rows of the meta table the current run maps to
NumSites ==
    IF mapper.op = "gen"
    THEN Len(gen_meta_gid(mapper.fpath_map))
    ELSE Len(get_meta_arr(mapper.fpath_map))

ValidIds(ind) ==
    /\ Len(ind) = NumPixels
    /\ \A p \in 1 .. NumPixels : ind[p] = -1 \/ ind[p] \in 0 .. (NumSites - 1)

\* C15: in every state of a run the full index array has one entry per
\* exclusion pixel and every entry is -1 or a 0-based row position of the
\* meta table mapped to; the saved dataset likewise
C15_ValidIds ==
    /\ ValidIds(ind_all)
    /\ pc = "done" => ValidIds(SavedData)

\* a collected batch has put the last row of the meta table into the array
C15_Witness ==
    /\ pc = "collect"
    /\ n_finished >= 1
    /\ \E p \in 1 .. NumPixels : ind_all[p] = NumSites - 1 /\ NumSites > 1
    /\ \E p \in 1 .. NumPixels : ind_all[p] = -1

\* no resource site lies in the bounding box of batch i expanded by the margin
NoCandidates(i) ==
    /\ mapper.op = "resource"
    /\ unpack_ok(store0, Exists0)
    /\ Len(mask_ind(get_meta_arr(mapper.fpath_map),
                    unpack_coords(gid_chunks[i], mapper.fpath_excl, store0,
                                  Exists0).lat_range,
                    unpack_coords(gid_chunks[i], mapper.fpath_excl, store0,
                                  Exists0).lon_range, Margin)) = 0

IsCollected(i) == \E k \in 1 .. Len(collected) : collected[k] = i

\* C16: the task of a batch without candidate sites returns -1 for each of
\* its gids and, once the batch is collected, every pixel of every gid of
\* the batch holds -1
C16_EmptyMask ==
    \A i \in Batches :
        (NoCandidates(i) /\ status[i] = "ok") =>
            /\ \A j \in 1 .. Len(gid_chunks[i]) :
                   result[i][1].ind[j] = Scalar(-1)
            /\ IsCollected(i) =>
                   \A j \in 1 .. Len(gid_chunks[i]) :
                       \A k \in 1 .. Len(get_flat_excl_ind(gid_chunks[i][j])) :
                           ind_all[get_flat_excl_ind(gid_chunks[i][j])[k] + 1] = -1

\* a run in which one batch has no candidate site and another maps pixels
C16_Witness ==
    /\ pc = "done"
    /\ \E i \in Batches : NoCandidates(i) /\ IsCollected(i)
    /\ \E p \in 1 .. NumPixels : ind_all[p] >= 0

\* C17: the store changes only in the save of the orchestrator, after every
\* batch was collected, when no task of the run is queued or running; no
\* step of a worker task changes the store
C17_SingleWriter ==
    [][/\ store' /= store =>
              /\ pc = "collect" /\ pc' = "done"
              /\ \A i \in Batches : status[i] \in {"ok", "failed"}
              /\ NumRunning = 0
       /\ status' /= status => store' = store
      ]_vars

\* a save on a pool of several workers, after tasks ran side by side
C17_Witness ==
    /\ pc = "done"
    /\ store /= store0
    /\ mapper.n_cores > 1
    /\ \A i \in Batches : status[i] = "ok"

\* the id that pixel coordinate x gets from a query over all rows of the
\* resource meta
NearestOfAll(x, meta, distance_upper_bound) ==
    IF exceeds_bound(tree_query(meta, x).dist2, distance_upper_bound)
    THEN -1
    ELSE tree_query(meta, x).ind

\* C18: after a resource pass every pixel holds the row position, in the
\* whole resource meta, of the site nearest to it among all sites when that
\* distance is within distance_upper_bound, and -1 otherwise, also for a
\* bound above the pruning margin
C18_GlobalNearest ==
    Succeeded("resource") =>
        \A p \in 1 .. NumPixels :
            SavedData[p] = NearestOfAll(coords_all[p],
                                        get_meta_arr(mapper.fpath_map),
                                        mapper.distance_upper_bound)

\* the batches of n gids
chunks_of(n) == array_split(n, CeilDiv(n, 2))

\* the batches are ascending contiguous ranges that follow one another from
\* gid 0 to gid n - 1, each of one or two gids, CeilDiv(n, 2) in number
IsPartition(chunks, n) ==
    /\ Len(chunks) = CeilDiv(n, 2)
    /\ \A i \in 1 .. Len(chunks) :
           /\ Len(chunks[i]) \in {1, 2}
           /\ \A k \in 1 .. (Len(chunks[i]) - 1) :
                  chunks[i][k + 1] = chunks[i][k] + 1
    /\ chunks[1][1] = 0
    /\ \A i \in 1 .. (Len(chunks) - 1) :
           chunks[i + 1][1] = chunks[i][Len(chunks[i])] + 1
    /\ chunks[Len(chunks)][Len(chunks[Len(chunks)])] = n - 1
    /\ \A g \in 0 .. (n - 1) :
           Cardinality({i \in 1 .. Len(chunks) :
                           \E k \in 1 .. Len(chunks[i]) : chunks[i][k] = g}) = 1

\* C19: for every number of gids the scheduler's batches are disjoint
\* contiguous ascending ranges covering exactly 0 .. n - 1, CeilDiv(n, 2)
\* batches of one or two gids; so are the batches a run submits, and every
\* gid goes to exactly one task
C19_BatchPartition ==
    /\ \A n \in 1 .. MaxSplit : IsPartition(chunks_of(n), n)
    /\ IsPartition(gid_chunks, sc_len)
    /\ pc = "collect" => \A i \in Batches : status[i] /= "unsubmitted"

\* every batch of a run was submitted, batches of one and of two gids exist
C19_Witness ==
    /\ pc = "collect"
    /\ NumSubmitted = CeilDiv(sc_len, 2)
    /\ \E i \in Batches : Len(gid_chunks[i]) = 2
    /\ \E n \in 1 .. MaxSplit : \E i \in 1 .. Len(chunks_of(n)) :
           Len(chunks_of(n)[i]) = 1

\* flat pixel indices of all gids of batch i
PixelsOf(i) ==
    UNION {Range(get_flat_excl_ind(gid_chunks[i][j])) :
               j \in 1 .. Len(gid_chunks[i])}

\* the per-gid index results that the task of batch i returned
ResultInd(i) ==
    IF mapper.op = "resource" THEN result[i][1].ind ELSE result[i][1]

\* the batch handed over by the latest iteration of the as_completed loop
LastCollected == collected[Len(collected)]

HasCoordMap(file) ==
    /\ file.exists
    /\ IsSome(file.latitude) /\ IsSome(file.longitude)
    /\ IsSome(file.fpath_excl)

\* C22: a run on a file that holds latitude, longitude and fpath_excl leaves
\* the three as they are, also when it names another exclusion file, and
\* leaves every dataset other than the requested one as it is
C22_CoordsFrozen ==
    [][HasCoordMap(store) =>
          /\ store'.exists
          /\ store'.latitude = store.latitude
          /\ store'.longitude = store.longitude
          /\ store'.fpath_excl = store.fpath_excl
          /\ \A d \in DsetNames \ {mapper'.dset} : store'.dsets[d] = store.dsets[d]
      ]_vars

\* a run naming another exclusion file than the recorded one has replaced
\* its dataset, and a generation run has left the resource dataset alone
C22_Witness ==
    /\ runs = 2
    /\ pc = "done"
    /\ HasCoordMap(store0)
    /\ store /= store0
    /\ basename(store0.fpath_excl[1]) /= basename(mapper.fpath_excl)
    /\ mapper.op = "gen"
    /\ mapper.dset /= mapper.res_map_dset

C24_BoundRecorded ==
    Succeeded("resource") =>
        /\ Len(mapper.passed) = NumBatches
        /\ \A i \in Batches :
               mapper.passed[i] = store.dsets[mapper.dset][1].distance_upper_bound
        /\ Some(store.dsets[mapper.dset][1].distance_upper_bound)
               = IF mapper.bound_arg = NoBound
                 THEN infer_bound(lat_dists(
                          ColOf(get_meta_arr(mapper.fpath_map), 1)))
                 ELSE Some(mapper.bound_arg)
        /\ \A i \in Batches :
               HoldsResultOf(i,
                   map_resource_gids(gid_chunks[i], mapper.fpath_excl,
                       get_meta_arr(mapper.fpath_map), store0, Exists0,
                       store.dsets[mapper.dset][1].distance_upper_bound,
                       Margin))

\* a saved run whose bound was inferred, with pixels inside and outside it
C24_Witness ==
    /\ Succeeded("resource")
    /\ mapper.bound_arg = NoBound
    /\ store.dsets[mapper.dset][1].distance_upper_bound \notin Bounds
    /\ \E p \in 1 .. NumPixels : SavedData[p] >= 0
    /\ \E p \in 1 .. NumPixels : SavedData[p] = -1

\* C25: the list a map_gen_gids task returns has exactly one entry per gid
\* of its batch: the else clause of the loop adds nothing to it
C25_OneEntryPerGid ==
    \A i \in Batches :
        (mapper.op = "gen" /\ status[i] = "ok") =>
            Len(result[i][1]) = Len(gid_chunks[i])

\* the rows of the resource map that belong to gid j of batch i
ResGidOf(i, j) ==
    res_gid_of(get_flat_excl_ind(gid_chunks[i][j]),
               store0.dsets[mapper.res_map_dset][1].data)

\* C26: for every generation meta, also one that names a resource id in
\* several rows, the result of map_gen_gids for a gid is an array with one
\* entry per pixel of the gid, the entry of the pixel's own resource id
C26_OneEntryPerPixel ==
    \A i \in Batches :
        (mapper.op = "gen" /\ status[i] = "ok") =>
            \A j \in 1 .. Len(gid_chunks[i]) :
                /\ ~result[i][1][j].scalar
                /\ Len(result[i][1][j].v) = Len(get_flat_excl_ind(gid_chunks[i][j]))
                /\ \A k \in 1 .. Len(get_flat_excl_ind(gid_chunks[i][j])) :
                       \/ result[i][1][j].v[k] = -1
                       \/ gen_meta_gid(mapper.fpath_map)[result[i][1][j].v[k] + 1]
                              = ResGidOf(i, j)[k]

\* C27: the step that constructs the mapper and validates the output file
\* (_check_fout) leaves the output store as it was, whether the file exists
\* or not and whether validation ends silently, with a warning or an error
C27_CheckFoutReadOnly == [][pc = "idle" => store' = store]_vars

C27_Witness ==
    /\ pc = "error"
    /\ error = "FileInputError"
    /\ warning = "replace"
    /\ mapper.op = "resource"
    /\ store.exists
    /\ store = store0

\* C28: for at least two available heights get_nearest_h returns, without
\* failing, two of the heights in ascending order such that no other
\* available height is nearer to h than either; extrapolate is true, and
\* the ExtrapolationWarning is issued, exactly when h is below every
\* available height or above every available height
C28_NearestHeights ==
    (wind.fn = "get_nearest_h" /\ wind.done) =>
        /\ Len(wind.nearest_h) = 2
        /\ wind.nearest_h[1] <= wind.nearest_h[2]
        /\ \E p, q \in 1 .. Len(wind.heights) :
               /\ p /= q
               /\ {wind.nearest_h[1], wind.nearest_h[2]}
                      = {wind.heights[p], wind.heights[q]}
               /\ wind.nearest_h[1] = wind.nearest_h[2]
                      => wind.heights[p] = wind.heights[q]
               /\ \A r \in 1 .. Len(wind.heights) \ {p, q} :
                      /\ Abs(wind.heights[r] - wind.h) >= Abs(wind.heights[p] - wind.h)
                      /\ Abs(wind.heights[r] - wind.h) >= Abs(wind.heights[q] - wind.h)
        /\ wind.extrapolate
               <=> (wind.h < SeqMin(wind.heights) \/ wind.h > SeqMax(wind.heights))
        /\ wind.warned <=> wind.extrapolate

C28_Witness ==
    /\ wind.fn = "get_nearest_h"
    /\ wind.done
    /\ Len(wind.heights) = 3
    /\ wind.h > SeqMax(wind.heights)
    /\ wind.nearest_h[1] < wind.nearest_h[2]
    /\ wind.extrapolate
    /\ wind.warned

\* the angle at fraction (h - h_1) / (h_2 - h_1) of the shortest arc from
\* ts_1 to ts_2
OnShortestArc(ts_1, h_1, ts_2, h_2, h) ==
    (ts_1 + exact_div(shortest_angle(ts_1, ts_2) * (h - h_1), h_2 - h_1))
        % FullCircle

\* C29: for h_1 < h < h_2 circular_interp returns the angle in [0, 360) at
\* fraction (h - h_1) / (h_2 - h_1) of the shortest arc from ts_1 to ts_2,
\* counted from ts_1
C29_CircularInterp ==
    (/\ wind.fn = "circular_interp"
     /\ wind.done
     /\ wind.h_1 < wind.h
     /\ wind.h < wind.h_2) =>
        /\ IsSome(wind.out)
        /\ wind.out[1] >= 0
        /\ wind.out[1] < FullCircle
        /\ wind.out[1] = OnShortestArc(wind.ts_1, wind.h_1, wind.ts_2,
                                       wind.h_2, wind.h)

====
